---- MODULE Spec2Model ----
(***************************************************************************)
(* Model of the MCS operator console (antmelon/mc-dotfiles):               *)
(*   - the Mode S word codec of Interrogations.get_mode_s_data             *)
(*     (src/interrogations.py), and                                        *)
(*   - the TCP transport session TCPClient (src/network/client.py).        *)
(* Several specifications share the module: SpecCodec (an operator fills   *)
(* the Mode S form of one tab and the word is built from it), SpecNet (one *)
(* TCPClient, its peer and the operations called on it), SpecApp (the      *)
(* application MCS: its connect, disconnect and send handlers and its      *)
(* network worker, src/app.py, src/main_menu.py), SpecUi (the handoff of    *)
(* decoded messages to the display) and SpecFile (the Menu screen saving   *)
(* messages to a file through its file-writer thread, src/main_menu.py).   *)
(***************************************************************************)
EXTENDS Integers, Sequences, FiniteSets, TLC

VARIABLES
    \* ---- Interrogations screen, one Mode S tab (src/interrogations.py) ----
    widgets,            \* widget id -> integer value read by get_widget_value
    address_input,      \* text of the "aircraft-address" Input, a sequence of characters
    form_pc,            \* "edit" while the form is being filled, "built" once the word is built
    mode_s_word,        \* first component returned by get_mode_s_data (None before)
    aircraft_address,   \* second component returned by get_mode_s_data (None before)
    \* ---- TCPClient (src/network/client.py) ----
    socket,             \* self.socket: 0 for None, else the number of the socket object
    running,            \* self.running
    buffer,             \* self._buffer, a sequence of characters
    last_call,          \* the last call made on the client: the method, whether a
                        \* socket was held when it was made, and what it returned
    recv_pc,            \* "idle", or "loop" while receive_data is inside its while loop
    callbacks,          \* the messages message_callback was invoked with, in order
    \* ---- the network worker of the application (src/app.py) ----
    worker,             \* "alive" while _network_worker_task runs, "dead" once it has raised
    \* ---- the operating system and the peer ----
    fds,                \* every socket created so far, by number: whether its connect
                        \* succeeded, whether the client still holds it, times closed
    peer,               \* the server end of the current connection
    wire,               \* the frames the peer has sent that recv has not returned in full
    partial,            \* the number of bytes of the first frame of wire recv has returned
    \* ---- the application MCS and the Menu screen (src/app.py, src/main_menu.py) ----
    tcp_client,         \* whether self.tcp_client holds a TCPClient (FALSE for None)
    app_call,           \* the last call made on the application: the method, what the
                        \* TCPClient call inside it raised, and what it returned
    sent,               \* the frames written with sendall, in order, each with its socket
    buttons,            \* the disabled flags of the Connect and Disconnect buttons
    \* ---- the handoff of decoded messages to the display (src/app.py) ----
    decoded,            \* the messages _on_message_received was called with, in order
    scheduled,          \* the callbacks scheduled with call_after_refresh and not yet run
    rows,               \* the rows added to the DataTable of the Menu screen, oldest first
    screen,             \* the name of the screen on top of the screen stack
    \* ---- saving messages to a file: Menu and its file-writer thread (src/main_menu.py) ----
    save_checkbox,      \* self.save_checkbox.value
    file_queue,         \* self._file_queue, oldest message first
    file_worker_running,\* self._file_worker_running
    current_file,       \* self._current_file: 0 for None, else the number of the file object
    files,              \* file object number -> "open" or "closed"
    file_lock,          \* self._file_lock: "free", or the thread that holds it
    pc,                 \* thread -> the statement it is about to execute
    ret,                \* thread -> where it continues after _open_file or _close_file
    \* ---- the text send_message makes of a record (src/network/client.py) ----
    tx_message,         \* the record given to send_message: its fields, each a key and
                        \* a string value, both sequences of characters
    tx_frame            \* the characters given to sendall, <<>> before the call

codec_vars == <<widgets, address_input, form_pc, mode_s_word, aircraft_address>>

net_vars == <<socket, running, buffer, last_call, recv_pc, callbacks, worker,
              fds, peer, wire, partial>>

app_vars == <<tcp_client, app_call, sent, buttons>>

ui_vars == <<decoded, scheduled, rows, screen>>

file_vars == <<save_checkbox, file_queue, file_worker_running, current_file,
               files, file_lock, pc, ret>>

tx_vars == <<tx_message, tx_frame>>

vars == <<codec_vars, net_vars, app_vars, ui_vars, file_vars, tx_vars>>

None == "None"

(***************************************************************************)
(* Bounds                                                                  *)
(***************************************************************************)
\* number of edits made to the form (widgets changed from their default plus
\* characters typed or pasted into the address Input) before the word is built
MaxEdits == 3

\* number of socket objects created (connect attempts that reach the OS)
MaxSockets == 2

\* number of frames in flight plus messages dispatched to the callback
MaxFrames == 2

\* CPython's recursion limit (sys.getrecursionlimit(), 1000 by default) counted
\* in nested JSON containers and scaled down to the frames of the model
PyRecursionLimit == 2

(***************************************************************************)
(* Integer helpers: Python's & and | on (possibly negative) integers,      *)
(* restricted to a 32-bit window, and << as a multiplication.              *)
(***************************************************************************)
RECURSIVE Pow2(_)
Pow2(n) == IF n = 0 THEN 1 ELSE 2 * Pow2(n - 1)

RECURSIVE BitAndNat(_, _)
BitAndNat(a, b) ==
    IF a = 0 \/ b = 0 THEN 0
    ELSE (IF a % 2 = 1 /\ b % 2 = 1 THEN 1 ELSE 0) + 2 * BitAndNat(a \div 2, b \div 2)

RECURSIVE BitOr(_, _)
BitOr(a, b) ==
    IF a = 0 THEN b
    ELSE IF b = 0 THEN a
    ELSE (IF a % 2 = 1 \/ b % 2 = 1 THEN 1 ELSE 0) + 2 * BitOr(a \div 2, b \div 2)

\* x & m for a non-negative mask m < 2^16 (every mask of the codec is at most
\* 0x1F): the two's complement of a negative x agrees with x modulo 2^16 on
\* the bits the mask keeps
BitAnd(x, m) == BitAndNat(x % Pow2(16), m)

\* A 32-bit word is kept as its two 16-bit halves, hi = bits 1-16 and
\* lo = bits 17-32 (bit 1 is the most significant), so that bit 1 can be set.
Word(h, l) == [hi |-> h, lo |-> l]

\* x << n for a non-negative x below 2^16, as a word
Shl(x, n) ==
    IF n >= 16
    THEN Word(x * Pow2(n - 16), 0)
    ELSE Word((x * Pow2(n)) \div Pow2(16), (x * Pow2(n)) % Pow2(16))

\* a | b on words
WordOr(a, b) == Word(BitOr(a.hi, b.hi), BitOr(a.lo, b.lo))

PyMax(a, b) == IF a >= b THEN a ELSE b
PyMin(a, b) == IF a <= b THEN a ELSE b

(***************************************************************************)
(* The Mode S form: widget ids of _make_mode_s_grid and the values an      *)
(* operator (or a blank Select, read as the default 0) can give them.      *)
(***************************************************************************)
WidgetIds == {"format", "protocol", "reply-request", "designator", "iis", "mbs",
              "mes", "los", "rss", "tms", "rrs", "tcs", "rcs", "sas", "sis",
              "lss", "prob-reply", "code-label"}

\* the values tried for each widget besides the default 0: the largest value
\* of the field, values beyond its width and, for the free-text Inputs,
\* a negative number
WidgetValues(id) ==
    CASE id = "format"        -> {3, 4, 5, 11, 17, 20, 21, 36}
      [] id = "protocol"      -> {7, 9}
      [] id = "reply-request" -> {31, 40, -1}
      [] id = "designator"    -> {1, 2, 3, 7, 9}
      [] id = "iis"           -> {15, 17}
      [] id = "mbs"           -> {3, 5}
      [] id = "mes"           -> {7, 9}
      [] id = "los"           -> {1, 2}
      [] id = "rss"           -> {3, 5}
      [] id = "tms"           -> {15, 17}
      [] id = "rrs"           -> {15, 17}
      [] id = "tcs"           -> {7, 9}
      [] id = "rcs"           -> {7, 9}
      [] id = "sas"           -> {3, 5}
      [] id = "sis"           -> {31, 40, -1}
      [] id = "lss"           -> {1, 2}
      [] id = "prob-reply"    -> {15, 17}
      [] id = "code-label"    -> {7, 9}

\* characters typed into the aircraft-address Input
AddrChars == {" ", "1", "F", "Z", "-"}

\* texts pasted into the aircraft-address Input
AddrPastes == { <<"F", "F", "F", "F", "F", "F">>,
                <<"1", "0", "0", "0", "0", "0", "0">>,
                <<" ", "0", "A", "1", "B", "2", "C", " ">>,
                <<"Z", "Z", "Z", "Z", "Z", "Z">> }

\* get_widget_value(widget_id): the widget's integer value, 0 by default
get_widget_value(id) == widgets[id]

\* the values dictionary with reply-request and SIS read like the other fields
values_unclamped ==
    [ fmt               |-> get_widget_value("format"),
      protocol          |-> get_widget_value("protocol"),
      reply_request     |-> get_widget_value("reply-request"),
      designator        |-> get_widget_value("designator"),
      iis               |-> get_widget_value("iis"),
      mbs               |-> get_widget_value("mbs"),
      mes               |-> get_widget_value("mes"),
      los               |-> get_widget_value("los"),
      rss               |-> get_widget_value("rss"),
      tms               |-> get_widget_value("tms"),
      rrs               |-> get_widget_value("rrs"),
      tcs               |-> get_widget_value("tcs"),
      rcs               |-> get_widget_value("rcs"),
      sas               |-> get_widget_value("sas"),
      sis               |-> get_widget_value("sis"),
      lss               |-> get_widget_value("lss"),
      prob_reply        |-> get_widget_value("prob-reply"),
      interrogator_code |-> get_widget_value("iis"),
      code_label        |-> get_widget_value("code-label") ]

\* the values dictionary of get_mode_s_data
values ==
    [ fmt               |-> get_widget_value("format"),
      protocol          |-> get_widget_value("protocol"),
      reply_request     |-> PyMax(0, PyMin(31, get_widget_value("reply-request"))),
      designator        |-> get_widget_value("designator"),
      iis               |-> get_widget_value("iis"),
      mbs               |-> get_widget_value("mbs"),
      mes               |-> get_widget_value("mes"),
      los               |-> get_widget_value("los"),
      rss               |-> get_widget_value("rss"),
      tms               |-> get_widget_value("tms"),
      rrs               |-> get_widget_value("rrs"),
      tcs               |-> get_widget_value("tcs"),
      rcs               |-> get_widget_value("rcs"),
      sas               |-> get_widget_value("sas"),
      sis               |-> PyMax(0, PyMin(31, get_widget_value("sis"))),
      lss               |-> get_widget_value("lss"),
      prob_reply        |-> get_widget_value("prob-reply"),
      interrogator_code |-> get_widget_value("iis"),
      code_label        |-> get_widget_value("code-label") ]

\* designator_handlers with the RRS of designator 7 shifted as in designator 3
designator_handlers_rrs_shift(v, d) ==
    CASE d = 0 -> Shl(BitAnd(v.iis, 15), 12)
      [] d = 1 -> WordOr(WordOr(WordOr(WordOr(WordOr(
                      Shl(BitAnd(v.iis, 15), 12),
                      Shl(BitAnd(v.mbs, 3), 10)),
                      Shl(BitAnd(v.mes, 7), 7)),
                      Shl(BitAnd(v.los, 1), 6)),
                      Shl(BitAnd(v.rss, 3), 4)),
                      Shl(BitAnd(v.tms, 15), 0))
      [] d = 2 -> WordOr(WordOr(
                      Shl(BitAnd(v.tcs, 7), 8),
                      Shl(BitAnd(v.rcs, 7), 5)),
                      Shl(BitAnd(v.sas, 3), 3))
      [] d = 3 -> WordOr(WordOr(
                      Shl(BitAnd(v.sis, 31), 11),
                      Shl(BitAnd(v.lss, 1), 10)),
                      Shl(BitAnd(v.rrs, 15), 6))
      [] d = 7 -> WordOr(WordOr(WordOr(
                      Shl(BitAnd(v.iis, 15), 12),
                      Shl(BitAnd(v.rrs, 15), 6)),
                      Shl(BitAnd(v.los, 1), 6)),
                      Shl(BitAnd(v.tms, 15), 0))

\* designator_handlers[d](): bits 17-32 for the designators that have a handler
designator_handlers(v, d) ==
    CASE d = 0 -> Shl(BitAnd(v.iis, 15), 12)
      [] d = 1 -> WordOr(WordOr(WordOr(WordOr(WordOr(
                      Shl(BitAnd(v.iis, 15), 12),
                      Shl(BitAnd(v.mbs, 3), 10)),
                      Shl(BitAnd(v.mes, 7), 7)),
                      Shl(BitAnd(v.los, 1), 6)),
                      Shl(BitAnd(v.rss, 3), 4)),
                      Shl(BitAnd(v.tms, 15), 0))
      [] d = 2 -> WordOr(WordOr(
                      Shl(BitAnd(v.tcs, 7), 8),
                      Shl(BitAnd(v.rcs, 7), 5)),
                      Shl(BitAnd(v.sas, 3), 3))
      [] d = 3 -> WordOr(WordOr(
                      Shl(BitAnd(v.sis, 31), 11),
                      Shl(BitAnd(v.lss, 1), 10)),
                      Shl(BitAnd(v.rrs, 15), 6))
      [] d = 7 -> WordOr(WordOr(WordOr(
                      Shl(BitAnd(v.iis, 15), 12),
                      Shl(BitAnd(v.rrs, 15), 8)),
                      Shl(BitAnd(v.los, 1), 6)),
                      Shl(BitAnd(v.tms, 15), 0))

HandledDesignators == {0, 1, 2, 3, 7}

\* bits 6-32 of the word for formats 4, 5, 20 and 21 (lines 341-377)
PackSurveillance(v) ==
    LET w16 == WordOr(WordOr(
                   Shl(BitAnd(v.protocol, 7), 24),
                   Shl(BitAnd(v.reply_request, 31), 19)),
                   Shl(BitAnd(v.designator, 7), 16))
    IN  IF v.designator \in HandledDesignators
        THEN WordOr(w16, designator_handlers(v, v.designator))
        ELSE w16

\* PackAllCall with the code label one bit too low
PackAllCall_label_shift(v) ==
    WordOr(WordOr(
        Shl(BitAnd(v.prob_reply, 15), 23),
        Shl(BitAnd(v.interrogator_code, 15), 19)),
        Shl(BitAnd(v.code_label, 7), 15))

\* bits 6-32 of the word for formats 11 and 17 (lines 379-384)
PackAllCall(v) ==
    WordOr(WordOr(
        Shl(BitAnd(v.prob_reply, 15), 23),
        Shl(BitAnd(v.interrogator_code, 15), 19)),
        Shl(BitAnd(v.code_label, 7), 16))

\* PackWord selecting the layout by the masked format code
PackWord_masked_format(v) ==
    LET common == Shl(BitAnd(v.fmt, 31), 27) IN
    IF BitAnd(v.fmt, 31) \in {4, 5, 20, 21} THEN WordOr(common, PackSurveillance(v))
    ELSE IF BitAnd(v.fmt, 31) \in {11, 17} THEN WordOr(common, PackAllCall(v))
    ELSE common

\* lines 333-388: the word of get_mode_s_data, from the values dictionary
PackWord(v) ==
    LET common == Shl(BitAnd(v.fmt, 31), 27) IN
    IF v.fmt \in {4, 5, 20, 21} THEN WordOr(common, PackSurveillance(v))
    ELSE IF v.fmt \in {11, 17} THEN WordOr(common, PackAllCall(v))
    ELSE common

(***************************************************************************)
(* Address decoding: str.strip() and int(s, 16)                            *)
(***************************************************************************)
IsSpace(c) == c = " "

RECURSIVE LStrip(_)
LStrip(s) == IF s # <<>> /\ IsSpace(Head(s)) THEN LStrip(Tail(s)) ELSE s

RECURSIVE RStrip(_)
RStrip(s) ==
    IF s # <<>> /\ IsSpace(s[Len(s)]) THEN RStrip(SubSeq(s, 1, Len(s) - 1)) ELSE s

Strip(s) == RStrip(LStrip(s))

HexDigits == {"0", "1", "2", "3", "4", "5", "6", "7", "8", "9",
              "A", "B", "C", "D", "E", "F"}

HexDigitValue(c) ==
    CASE c = "0" -> 0 [] c = "1" -> 1 [] c = "2" -> 2 [] c = "3" -> 3
      [] c = "4" -> 4 [] c = "5" -> 5 [] c = "6" -> 6 [] c = "7" -> 7
      [] c = "8" -> 8 [] c = "9" -> 9 [] c = "A" -> 10 [] c = "B" -> 11
      [] c = "C" -> 12 [] c = "D" -> 13 [] c = "E" -> 14 [] c = "F" -> 15

\* the digit scan of int() without a base: decimal digits only
RECURSIVE ScanDigits_decimal(_, _)
ScanDigits_decimal(s, acc) ==
    IF s = <<>> THEN [ok |-> TRUE, val |-> acc]
    ELSE IF Head(s) \in {"0", "1", "2", "3", "4", "5", "6", "7", "8", "9"}
         THEN ScanDigits_decimal(Tail(s), acc * 10 + HexDigitValue(Head(s)))
         ELSE [ok |-> FALSE, val |-> 0]

\* the digit scan of int(): left to right, acc = acc * 16 + digit;
\* a character that is not a digit of the base is a ValueError
RECURSIVE ScanDigits(_, _)
ScanDigits(s, acc) ==
    IF s = <<>> THEN [ok |-> TRUE, val |-> acc]
    ELSE IF Head(s) \in HexDigits
         THEN ScanDigits(Tail(s), acc * 16 + HexDigitValue(Head(s)))
         ELSE [ok |-> FALSE, val |-> 0]

\* int(s, 16) on the characters of the model: surrounding whitespace is
\* ignored, one leading sign is accepted, at least one digit is required
PyIntBase16(s) ==
    LET t    == Strip(s)
        neg  == t # <<>> /\ Head(t) = "-"
        body == IF neg THEN Tail(t) ELSE t
        r    == ScanDigits(body, 0)
    IN  IF body = <<>> \/ ~r.ok
        THEN [ok |-> FALSE, val |-> 0]
        ELSE [ok |-> TRUE, val |-> IF neg THEN 0 - r.val ELSE r.val]

\* lines 326-331: the aircraft address of get_mode_s_data
DecodeAddress(text) ==
    LET aircraft_address_str == Strip(text)
        r == PyIntBase16(aircraft_address_str)
    IN  IF aircraft_address_str = <<>> THEN 0
        ELSE IF r.ok THEN r.val
        ELSE 0

(***************************************************************************)
(* Actions of the form                                                     *)
(***************************************************************************)
Edits == Cardinality({id \in WidgetIds : widgets[id] # 0}) + Len(address_input)

CodecInit ==
    /\ widgets = [id \in WidgetIds |-> 0]
    /\ address_input = <<>>
    /\ form_pc = "edit"
    /\ mode_s_word = None
    /\ aircraft_address = None

\* the operator selects or types a value in one widget of the tab
SetWidget(id, val) ==
    /\ form_pc = "edit"
    /\ widgets[id] = 0
    /\ Edits < MaxEdits
    /\ widgets' = [widgets EXCEPT ![id] = val]
    /\ UNCHANGED <<address_input, form_pc, mode_s_word, aircraft_address>>
    /\ UNCHANGED <<net_vars, app_vars, ui_vars, file_vars, tx_vars>>

\* the operator types one character into the aircraft-address Input
TypeAddress(c) ==
    /\ form_pc = "edit"
    /\ Edits < MaxEdits
    /\ address_input' = Append(address_input, c)
    /\ UNCHANGED <<widgets, form_pc, mode_s_word, aircraft_address>>
    /\ UNCHANGED <<net_vars, app_vars, ui_vars, file_vars, tx_vars>>

\* the operator pastes a text into the empty aircraft-address Input
PasteAddress(text) ==
    /\ form_pc = "edit"
    /\ address_input = <<>>
    /\ Edits < MaxEdits
    /\ address_input' = text
    /\ UNCHANGED <<widgets, form_pc, mode_s_word, aircraft_address>>
    /\ UNCHANGED <<net_vars, app_vars, ui_vars, file_vars, tx_vars>>

\* get_mode_s_data(prefix): returns (mode_s_word, aircraft_address)
GetModeSData ==
    /\ form_pc = "edit"
    /\ mode_s_word' = PackWord(values)
    /\ aircraft_address' = DecodeAddress(address_input)
    /\ form_pc' = "built"
    /\ UNCHANGED <<widgets, address_input>>
    /\ UNCHANGED <<net_vars, app_vars, ui_vars, file_vars, tx_vars>>

CodecNext ==
    \/ \E id \in WidgetIds : \E val \in WidgetValues(id) : SetWidget(id, val)
    \/ \E c \in AddrChars : TypeAddress(c)
    \/ \E text \in AddrPastes : PasteAddress(text)
    \/ GetModeSData

(***************************************************************************)
(* The wire: bytes, their decoding and the JSON texts they carry           *)
(***************************************************************************)
LF == "\n"
QUOTE == "\""

\* config.RECEIVE_BUFFER_SIZE
RECEIVE_BUFFER_SIZE == 4096

\* The frames the peer sends, as bytes without the terminating newline: two
\* objects, the second carrying U+00E9 whose UTF-8 encoding is the two bytes
\* C3 A9, a text that is not JSON, and a text nested deeper than the
\* interpreter's recursion limit allows
FrameIds == 1..4

FrameBytes(f) ==
    CASE f = 1 -> <<"{", "}">>
      [] f = 2 -> <<"{", QUOTE, "0xC3", "0xA9", QUOTE, ":", "1", "}">>
      [] f = 3 -> <<"{">>
      [] f = 4 -> [i \in 1..(PyRecursionLimit + 1) |-> "["]
      [] f = 5 -> <<"1">>
      [] f = 6 -> <<QUOTE, "1", QUOTE>>
      [] f = 7 -> <<"[", "1", "]">>
      [] f = 8 -> <<"n", "u", "l", "l">>
      [] f = 9 -> <<" ">>
      [] f = 10 -> <<>>

\* frames that are JSON without being an object (a number, a string, an
\* array, null), frames of whitespace only and empty frames, with an object,
\* a text that is not JSON and a text nested too deeply beside them
BufferFrameIds == {1, 3, 4, 5, 6, 7, 8, 9, 10}

\* data.decode('utf-8', errors='replace'): a complete C3 A9 pair is U+00E9; a
\* lead byte without its continuation byte (also at the end of the data) and
\* a continuation byte without its lead byte are each replaced by U+FFFD
RECURSIVE Decode(_)
Decode(data) ==
    IF data = <<>> THEN <<>>
    ELSE IF Head(data) = "0xC3"
         THEN IF Len(data) >= 2 /\ data[2] = "0xA9"
              THEN <<"U+00E9">> \o Decode(SubSeq(data, 3, Len(data)))
              ELSE <<"U+FFFD">> \o Decode(Tail(data))
    ELSE IF Head(data) = "0xA9"
         THEN <<"U+FFFD">> \o Decode(Tail(data))
    ELSE <<Head(data)>> \o Decode(Tail(data))

(***************************************************************************)
(* json.loads on the characters of the model.  The texts contain no comma, *)
(* backslash, sign or fraction, so an object has at most one member, an    *)
(* array at most one element and a number is a run of digits.  A parsed    *)
(* value is represented by its kind and its text without whitespace.       *)
(***************************************************************************)
JsonError == [st |-> "error", next |-> 0, kind |-> "none", canon |-> <<>>]
JsonRecursion == [st |-> "recursion", next |-> 0, kind |-> "none", canon |-> <<>>]
JsonOk(n, k, c) == [st |-> "ok", next |-> n, kind |-> k, canon |-> c]

CharAt(s, i) == IF i >= 1 /\ i <= Len(s) THEN s[i] ELSE "EOF"

RECURSIVE SkipWs(_, _)
SkipWs(s, i) == IF CharAt(s, i) = " " THEN SkipWs(s, i + 1) ELSE i

\* index of the closing quote of a string whose first character is at i, or 0
RECURSIVE ClosingQuote(_, _)
ClosingQuote(s, i) ==
    IF i > Len(s) THEN 0
    ELSE IF s[i] = QUOTE THEN i
    ELSE ClosingQuote(s, i + 1)

\* index after the last digit of the run of digits that starts at i
RECURSIVE DigitsEnd(_, _)
DigitsEnd(s, i) == IF CharAt(s, i) = "1" THEN DigitsEnd(s, i + 1) ELSE i

\* scan_once: the value that starts at s[i]; depth counts the containers
\* being decoded, and entering one more than the recursion limit allows is a
\* RecursionError
RECURSIVE ScanOnce(_, _, _)
ScanOnce(s, i, depth) ==
    LET c == CharAt(s, i) IN
    IF c = QUOTE THEN
        LET q == ClosingQuote(s, i + 1) IN
        IF q = 0 THEN JsonError ELSE JsonOk(q + 1, "string", SubSeq(s, i, q))
    ELSE IF c = "1" THEN
        LET e == DigitsEnd(s, i) IN JsonOk(e, "number", SubSeq(s, i, e - 1))
    ELSE IF i + 3 <= Len(s) /\ SubSeq(s, i, i + 3) = <<"n", "u", "l", "l">> THEN
        JsonOk(i + 4, "null", SubSeq(s, i, i + 3))
    ELSE IF c = "{" THEN
        IF depth + 1 > PyRecursionLimit THEN JsonRecursion
        ELSE LET j == SkipWs(s, i + 1) IN
             IF CharAt(s, j) = "}" THEN JsonOk(j + 1, "object", <<"{", "}">>)
             ELSE IF CharAt(s, j) # QUOTE THEN JsonError
             ELSE LET q == ClosingQuote(s, j + 1) IN
                  IF q = 0 THEN JsonError
                  ELSE LET colon == SkipWs(s, q + 1) IN
                       IF CharAt(s, colon) # ":" THEN JsonError
                       ELSE LET v == ScanOnce(s, SkipWs(s, colon + 1), depth + 1) IN
                            IF v.st # "ok" THEN v
                            ELSE LET close == SkipWs(s, v.next) IN
                                 IF CharAt(s, close) # "}" THEN JsonError
                                 ELSE JsonOk(close + 1, "object",
                                             <<"{">> \o SubSeq(s, j, q) \o <<":">>
                                                     \o v.canon \o <<"}">>)
    ELSE IF c = "[" THEN
        IF depth + 1 > PyRecursionLimit THEN JsonRecursion
        ELSE LET j == SkipWs(s, i + 1) IN
             IF CharAt(s, j) = "]" THEN JsonOk(j + 1, "array", <<"[", "]">>)
             ELSE LET v == ScanOnce(s, j, depth + 1) IN
                  IF v.st # "ok" THEN v
                  ELSE LET close == SkipWs(s, v.next) IN
                       IF CharAt(s, close) # "]" THEN JsonError
                       ELSE JsonOk(close + 1, "array", <<"[">> \o v.canon \o <<"]">>)
    ELSE JsonError

\* json.loads(s): one value between optional whitespace, nothing after it
JsonLoads(s) ==
    LET v == ScanOnce(s, SkipWs(s, 1), 0) IN
    IF v.st # "ok" THEN v
    ELSE IF SkipWs(s, v.next) <= Len(s) THEN JsonError
    ELSE v

\* index of the first newline of a text that contains one
FirstLF(s) == CHOOSE i \in 1..Len(s) : s[i] = LF /\ \A j \in 1..(i - 1) : s[j] # LF

HasLF(s) == \E i \in 1..Len(s) : s[i] = LF

\* _process_buffer that invokes the callback with every JSON value
RECURSIVE ProcessBuffer_any_value(_, _)
ProcessBuffer_any_value(buf, msgs) ==
    IF ~HasLF(buf) THEN [buffer |-> buf, messages |-> msgs, raised |-> FALSE]
    ELSE LET k           == FirstLF(buf)
             message_str == SubSeq(buf, 1, k - 1)
             rest        == SubSeq(buf, k + 1, Len(buf))
         IN  IF Strip(message_str) = <<>> THEN ProcessBuffer_any_value(rest, msgs)
             ELSE LET message == JsonLoads(message_str) IN
                  IF message.st = "recursion"
                  THEN [buffer |-> rest, messages |-> msgs, raised |-> TRUE]
                  ELSE IF message.st = "ok"
                  THEN ProcessBuffer_any_value(rest, Append(msgs, message.canon))
                  ELSE ProcessBuffer_any_value(rest, msgs)

\* _process_buffer on the buffer buf, msgs being the messages dispatched so
\* far by this call: the buffer left, the messages the callback was invoked
\* with, and whether json.loads raised an exception the handler does not catch
RECURSIVE ProcessBuffer(_, _)
ProcessBuffer(buf, msgs) ==
    IF ~HasLF(buf) THEN [buffer |-> buf, messages |-> msgs, raised |-> FALSE]
    ELSE LET k           == FirstLF(buf)
             message_str == SubSeq(buf, 1, k - 1)
             rest        == SubSeq(buf, k + 1, Len(buf))
         IN  IF Strip(message_str) = <<>> THEN ProcessBuffer(rest, msgs)
             ELSE LET message == JsonLoads(message_str) IN
                  IF message.st = "recursion"
                  THEN [buffer |-> rest, messages |-> msgs, raised |-> TRUE]
                  ELSE IF message.st = "ok" /\ message.kind = "object"
                  THEN ProcessBuffer(rest, Append(msgs, message.canon))
                  ELSE ProcessBuffer(rest, msgs)

\* the number of logger.warning calls _process_buffer makes on the buffer
\* buf: one for each segment json.loads rejects with JSONDecodeError
RECURSIVE Warnings(_)
Warnings(buf) ==
    IF ~HasLF(buf) THEN 0
    ELSE LET k           == FirstLF(buf)
             message_str == SubSeq(buf, 1, k - 1)
             rest        == SubSeq(buf, k + 1, Len(buf))
         IN  IF Strip(message_str) = <<>> THEN Warnings(rest)
             ELSE LET message == JsonLoads(message_str) IN
                  IF message.st = "recursion" THEN 0
                  ELSE IF message.st = "error" THEN 1 + Warnings(rest)
                  ELSE Warnings(rest)

(***************************************************************************)
(* The connection as the client's socket sees it                           *)
(***************************************************************************)
\* the bytes of a frame on the wire: the frame and its newline
FrameOnWire(f) == FrameBytes(f) \o <<LF>>

RECURSIVE Flatten(_)
Flatten(frames) ==
    IF frames = <<>> THEN <<>> ELSE FrameOnWire(Head(frames)) \o Flatten(Tail(frames))

\* the bytes recv can still return
WireBytes(frames, done) ==
    LET all == Flatten(frames) IN SubSeq(all, done + 1, Len(all))

\* the frames left on the wire, and the bytes of the first of them already
\* returned, after recv has returned n more bytes
RECURSIVE Consume(_, _, _)
Consume(frames, done, n) ==
    IF n = 0 \/ frames = <<>> THEN [wire |-> frames, partial |-> done]
    ELSE LET left == Len(FrameOnWire(Head(frames))) - done IN
         IF n >= left THEN Consume(Tail(frames), 0, n - left)
         ELSE [wire |-> frames, partial |-> done + n]

(***************************************************************************)
(* TCPClient                                                               *)
(***************************************************************************)
NetInit ==
    /\ socket = 0
    /\ running = FALSE
    /\ buffer = <<>>
    /\ last_call = [call |-> "__init__", held |-> FALSE, value |-> "None"]
    /\ recv_pc = "idle"
    /\ callbacks = <<>>
    /\ worker = "alive"
    /\ fds = <<>>
    /\ peer = "none"
    /\ wire = <<>>
    /\ partial = 0

\* the call of method, made with or without a socket held, returned value
\* (or raised the exception that value names)
Returned(method, value) ==
    last_call' = [call |-> method, held |-> socket # 0, value |-> value]

\* whether socket.shutdown(SHUT_RDWR) raises OSError on socket number sock: it
\* does (ENOTCONN) on a socket that never connected, it may once the peer has
\* reset the connection, it does not on an established connection
ShutdownOutcomes(sock, table) ==
    IF ~table[sock].connected THEN {TRUE}
    ELSE IF peer = "reset" THEN {TRUE, FALSE}
    ELSE {FALSE}

\* _cleanup_socket without the finally clause: the reference is kept
CleanupSocket_keeps_reference(sock, table, shutdown_raises) ==
    IF sock = 0 THEN [socket |-> 0, fds |-> table]
    ELSE IF shutdown_raises
         THEN [socket |-> sock, fds |-> table]
         ELSE [socket |-> sock, fds |-> [table EXCEPT ![sock].closes = @ + 1]]

\* _cleanup_socket on self.socket = sock: the reference and the socket table
\* after it.  close() is inside the try block after shutdown(), so it is
\* skipped when shutdown() raises; the reference is dropped in either case.
CleanupSocket(sock, table, shutdown_raises) ==
    IF sock = 0 THEN [socket |-> 0, fds |-> table]
    ELSE IF shutdown_raises
         THEN [socket |-> 0, fds |-> [table EXCEPT ![sock].held = FALSE]]
         ELSE [socket |-> 0,
               fds |-> [table EXCEPT ![sock].held = FALSE, ![sock].closes = @ + 1]]

\* connect() while a socket is held: "Already connected", returns False
ConnectAlready ==
    /\ recv_pc = "idle"
    /\ socket # 0
    /\ Returned("connect", "False")
    /\ UNCHANGED <<socket, running, buffer, recv_pc, callbacks, worker,
                   fds, peer, wire, partial>>
    /\ UNCHANGED <<codec_vars, app_vars, ui_vars, file_vars, tx_vars>>

\* connect() that succeeds without resetting the receive buffer
ConnectOk_keeps_buffer ==
    /\ recv_pc = "idle"
    /\ socket = 0
    /\ Len(fds) < MaxSockets
    /\ fds' = Append(fds, [connected |-> TRUE, held |-> TRUE, closes |-> 0])
    /\ socket' = Len(fds) + 1
    /\ running' = TRUE
    /\ buffer' = buffer
    /\ Returned("connect", "True")
    /\ worker' = "alive"
    /\ peer' = "open"
    /\ wire' = <<>>
    /\ partial' = 0
    /\ UNCHANGED <<recv_pc, callbacks>>
    /\ UNCHANGED <<codec_vars, app_vars, ui_vars, file_vars, tx_vars>>

\* connect() that succeeds; the application then starts the network worker
\* again if its task has finished
ConnectOk ==
    /\ recv_pc = "idle"
    /\ socket = 0
    /\ Len(fds) < MaxSockets
    /\ fds' = Append(fds, [connected |-> TRUE, held |-> TRUE, closes |-> 0])
    /\ socket' = Len(fds) + 1
    /\ running' = TRUE
    /\ buffer' = <<>>
    /\ Returned("connect", "True")
    /\ worker' = "alive"
    /\ peer' = "open"
    /\ wire' = <<>>
    /\ partial' = 0
    /\ UNCHANGED <<recv_pc, callbacks>>
    /\ UNCHANGED <<codec_vars, app_vars, ui_vars, file_vars, tx_vars>>

\* connect() that sets self.running before socket.connect, which then raises
ConnectFail_sets_running ==
    /\ recv_pc = "idle"
    /\ socket = 0
    /\ Len(fds) < MaxSockets
    /\ LET created == Append(fds, [connected |-> FALSE, held |-> TRUE, closes |-> 0])
           sock    == Len(fds) + 1
       IN  \E shutdown_raises \in ShutdownOutcomes(sock, created) :
               LET after == CleanupSocket(sock, created, shutdown_raises) IN
               /\ fds' = after.fds
               /\ socket' = after.socket
    /\ running' = TRUE
    /\ Returned("connect", "False")
    /\ UNCHANGED <<buffer, recv_pc, callbacks, worker, peer, wire, partial>>
    /\ UNCHANGED <<codec_vars, app_vars, ui_vars, file_vars, tx_vars>>

\* connect() whose socket.connect raises socket.error (refused, unreachable,
\* timed out): _cleanup_socket on the socket that never connected, returns False
ConnectFail ==
    /\ recv_pc = "idle"
    /\ socket = 0
    /\ Len(fds) < MaxSockets
    /\ LET created == Append(fds, [connected |-> FALSE, held |-> TRUE, closes |-> 0])
           sock    == Len(fds) + 1
       IN  \E shutdown_raises \in ShutdownOutcomes(sock, created) :
               LET after == CleanupSocket(sock, created, shutdown_raises) IN
               /\ fds' = after.fds
               /\ socket' = after.socket
    /\ Returned("connect", "False")
    /\ UNCHANGED <<running, buffer, recv_pc, callbacks, worker, peer, wire, partial>>
    /\ UNCHANGED <<codec_vars, app_vars, ui_vars, file_vars, tx_vars>>

\* disconnect() that leaves self.running as it is
DoDisconnect_keeps_running ==
    /\ running' = running
    /\ IF socket = 0
       THEN UNCHANGED <<socket, fds>>
       ELSE \E shutdown_raises \in ShutdownOutcomes(socket, fds) :
                LET after == CleanupSocket(socket, fds, shutdown_raises) IN
                /\ fds' = after.fds
                /\ socket' = after.socket
    /\ peer' = "none"
    /\ wire' = <<>>
    /\ partial' = 0

\* the state change of disconnect(): running = False, then _cleanup_socket;
\* the connection of a socket this client no longer holds is gone
DoDisconnect ==
    /\ running' = FALSE
    /\ IF socket = 0
       THEN UNCHANGED <<socket, fds>>
       ELSE \E shutdown_raises \in ShutdownOutcomes(socket, fds) :
                LET after == CleanupSocket(socket, fds, shutdown_raises) IN
                /\ fds' = after.fds
                /\ socket' = after.socket
    /\ peer' = "none"
    /\ wire' = <<>>
    /\ partial' = 0

\* disconnect()
Disconnect ==
    /\ recv_pc = "idle"
    /\ DoDisconnect
    /\ Returned("disconnect", "None")
    /\ UNCHANGED <<buffer, recv_pc, callbacks, worker>>
    /\ UNCHANGED <<codec_vars, app_vars, ui_vars, file_vars, tx_vars>>

\* receive_data(), called by the network worker: returns at once when the
\* client is not running or has no socket, else enters the while loop
ReceiveData ==
    /\ recv_pc = "idle"
    /\ worker = "alive"
    /\ IF ~running \/ socket = 0
       THEN /\ Returned("receive_data", "None")
            /\ UNCHANGED recv_pc
       ELSE /\ recv_pc' = "loop"
            /\ UNCHANGED last_call
    /\ UNCHANGED <<socket, running, buffer, callbacks, worker, fds, peer, wire, partial>>
    /\ UNCHANGED <<codec_vars, app_vars, ui_vars, file_vars, tx_vars>>

\* one iteration of the loop in which recv returns n bytes: they are decoded,
\* appended to the buffer and the buffer is processed; an exception that
\* _process_buffer lets through leaves receive_data and ends the worker task
RecvData(n) ==
    /\ recv_pc = "loop"
    /\ n >= 1 /\ n <= RECEIVE_BUFFER_SIZE
    /\ \E pending \in {WireBytes(wire, partial)} :
           /\ n <= Len(pending)
           /\ \E pb \in {ProcessBuffer(buffer \o Decode(SubSeq(pending, 1, n)), <<>>)} :
                  /\ buffer' = pb.buffer
                  /\ callbacks' = callbacks \o pb.messages
                  /\ IF pb.raised
                     THEN /\ recv_pc' = "idle"
                          /\ worker' = "dead"
                          /\ Returned("receive_data", "RecursionError")
                     ELSE UNCHANGED <<recv_pc, worker, last_call>>
    /\ \E left \in {Consume(wire, partial, n)} :
           /\ wire' = left.wire
           /\ partial' = left.partial
    /\ UNCHANGED <<socket, running, fds, peer>>
    /\ UNCHANGED <<codec_vars, app_vars, ui_vars, file_vars, tx_vars>>

\* recv raises socket.timeout: no more data for now, the loop ends
RecvTimeout ==
    /\ recv_pc = "loop"
    /\ recv_pc' = "idle"
    /\ Returned("receive_data", "None")
    /\ UNCHANGED <<socket, running, buffer, callbacks, worker, fds, peer, wire, partial>>
    /\ UNCHANGED <<codec_vars, app_vars, ui_vars, file_vars, tx_vars>>

\* recv returns b"": the peer closed the connection, disconnect() and break
RecvClosed ==
    /\ recv_pc = "loop"
    /\ peer = "closed"
    /\ wire = <<>>
    /\ DoDisconnect
    /\ recv_pc' = "idle"
    /\ Returned("receive_data", "None")
    /\ UNCHANGED <<buffer, callbacks, worker>>
    /\ UNCHANGED <<codec_vars, app_vars, ui_vars, file_vars, tx_vars>>

\* receive_data that logs the socket error and returns without disconnect()
RecvError_swallowed ==
    /\ recv_pc = "loop"
    /\ peer = "reset"
    /\ recv_pc' = "idle"
    /\ Returned("receive_data", "None")
    /\ UNCHANGED <<socket, running, fds, peer, wire, partial>>
    /\ UNCHANGED <<buffer, callbacks, worker>>
    /\ UNCHANGED <<codec_vars, app_vars, ui_vars, file_vars, tx_vars>>

\* recv raises socket.error (connection reset): disconnect()
RecvError ==
    /\ recv_pc = "loop"
    /\ peer = "reset"
    /\ DoDisconnect
    /\ recv_pc' = "idle"
    /\ Returned("receive_data", "None")
    /\ UNCHANGED <<buffer, callbacks, worker>>
    /\ UNCHANGED <<codec_vars, app_vars, ui_vars, file_vars, tx_vars>>

(***************************************************************************)
(* The peer                                                                *)
(***************************************************************************)
\* the server writes one frame and its newline
PeerSend(f) ==
    /\ peer = "open"
    /\ Len(wire) + Len(callbacks) < MaxFrames
    /\ wire' = Append(wire, f)
    /\ UNCHANGED <<socket, running, buffer, last_call, recv_pc, callbacks, worker, fds, peer, partial>>
    /\ UNCHANGED <<codec_vars, app_vars, ui_vars, file_vars, tx_vars>>

\* the server closes its end
PeerClose ==
    /\ peer = "open"
    /\ peer' = "closed"
    /\ UNCHANGED <<socket, running, buffer, last_call, recv_pc, callbacks, worker, fds, wire, partial>>
    /\ UNCHANGED <<codec_vars, app_vars, ui_vars, file_vars, tx_vars>>

\* the connection is reset; bytes not yet received are lost
PeerReset ==
    /\ peer \in {"open", "closed"}
    /\ peer' = "reset"
    /\ wire' = <<>>
    /\ partial' = 0
    /\ UNCHANGED <<socket, running, buffer, last_call, recv_pc, callbacks, worker, fds>>
    /\ UNCHANGED <<codec_vars, app_vars, ui_vars, file_vars, tx_vars>>

NetNext ==
    \/ ConnectAlready
    \/ ConnectOk
    \/ ConnectFail
    \/ Disconnect
    \/ ReceiveData
    \/ \E n \in 1..Len(WireBytes(wire, partial)) : RecvData(n)
    \/ RecvTimeout
    \/ RecvClosed
    \/ RecvError
    \/ \E f \in FrameIds : PeerSend(f)
    \/ PeerClose
    \/ PeerReset

(***************************************************************************)
(* The application MCS, the Menu screen and Interrogations.send            *)
(***************************************************************************)
\* number of frames written to the sockets
MaxSent == 2

\* the host and port arguments of a connect request
Hosts == {"", "127.0.0.1"}
Ports == {0, 9000, 65536}

\* the frames the server sends in SpecApp
AppFrames == {1}

\* the values the operator gives the format widget in SpecSend
SendFormats == {4, 11}

AppInit ==
    /\ tcp_client = FALSE
    /\ app_call = [call |-> "__init__", raised |-> None, value |-> None]
    /\ sent = <<>>
    /\ buttons = [connect |-> "enabled", disconnect |-> "disabled"]

\* the checks of TCPClient.__init__ (and of Menu.on_connect_click)
ValidEndpoint(host, port) == host # "" /\ port > 0 /\ port <= 65535

PyBool(b) == IF b THEN "True" ELSE "False"

\* the body of MCS.connect_to_server(host, port), accepted saying whether the
\* server accepts the connection: the client held is disconnected first; then
\* TCPClient(host, port) raises ValueError for an invalid endpoint, which the
\* handler catches; else the new client replaces the old one and connects,
\* and after a successful connect the network worker is started if finished
connect_to_server(host, port, accepted) ==
    \E shutdown_raises \in (IF tcp_client /\ socket # 0
                            THEN ShutdownOutcomes(socket, fds) ELSE {FALSE}) :
        LET torn == IF tcp_client
                    THEN CleanupSocket(socket, fds, shutdown_raises)
                    ELSE [socket |-> socket, fds |-> fds]
            sock == Len(torn.fds) + 1
        IN  IF ~ValidEndpoint(host, port)
            THEN /\ socket' = torn.socket
                 /\ fds' = torn.fds
                 /\ running' = (IF tcp_client THEN FALSE ELSE running)
                 /\ peer' = (IF tcp_client THEN "none" ELSE peer)
                 /\ wire' = (IF tcp_client THEN <<>> ELSE wire)
                 /\ partial' = (IF tcp_client THEN 0 ELSE partial)
                 /\ last_call' = (IF tcp_client
                                  THEN [call |-> "disconnect", held |-> socket # 0,
                                        value |-> "None"]
                                  ELSE last_call)
                 /\ UNCHANGED <<tcp_client, buffer, worker>>
            ELSE /\ Len(torn.fds) < MaxSockets
                 /\ tcp_client' = TRUE
                 /\ buffer' = <<>>
                 /\ wire' = <<>>
                 /\ partial' = 0
                 /\ IF accepted
                    THEN /\ fds' = Append(torn.fds,
                                          [connected |-> TRUE, held |-> TRUE, closes |-> 0])
                         /\ socket' = sock
                         /\ running' = TRUE
                         /\ peer' = "open"
                         /\ worker' = "alive"
                         /\ last_call' = [call |-> "connect", held |-> FALSE,
                                          value |-> "True"]
                    ELSE /\ LET created == Append(torn.fds, [connected |-> FALSE,
                                                            held |-> TRUE, closes |-> 0])
                            IN  \E r \in ShutdownOutcomes(sock, created) :
                                    LET after == CleanupSocket(sock, created, r) IN
                                    /\ fds' = after.fds
                                    /\ socket' = after.socket
                         /\ running' = FALSE
                         /\ peer' = "none"
                         /\ last_call' = [call |-> "connect", held |-> FALSE,
                                          value |-> "False"]
                         /\ UNCHANGED worker

\* MCS.connect_to_server(host, port) called with any arguments
ConnectToServer(host, port) ==
    /\ recv_pc = "idle"
    /\ \E accepted \in BOOLEAN :
           /\ connect_to_server(host, port, accepted)
           /\ app_call' = [call   |-> "connect_to_server",
                           raised |-> IF ValidEndpoint(host, port) THEN None ELSE "ValueError",
                           value  |-> PyBool(ValidEndpoint(host, port) /\ accepted)]
    /\ UNCHANGED <<recv_pc, callbacks, sent, buttons>>
    /\ UNCHANGED <<codec_vars, ui_vars, file_vars, tx_vars>>

\* Menu.on_connect_click with host and port read from the two Inputs: an
\* invalid endpoint is refused with a notification before the application is
\* called; after a successful connect the Connect button is disabled and the
\* Disconnect button enabled
OnConnectClick(host, port) ==
    /\ recv_pc = "idle"
    /\ buttons.connect = "enabled"
    /\ IF ~ValidEndpoint(host, port)
       THEN /\ app_call' = [call |-> "on_connect_click", raised |-> None, value |-> "refused"]
            /\ UNCHANGED <<net_vars, tcp_client, buttons>>
       ELSE \E accepted \in BOOLEAN :
                /\ connect_to_server(host, port, accepted)
                /\ app_call' = [call |-> "on_connect_click", raised |-> None,
                                value |-> PyBool(accepted)]
                /\ buttons' = IF accepted
                              THEN [connect |-> "disabled", disconnect |-> "enabled"]
                              ELSE buttons
                /\ UNCHANGED <<recv_pc, callbacks>>
    /\ UNCHANGED sent
    /\ UNCHANGED <<codec_vars, ui_vars, file_vars, tx_vars>>

\* Menu.on_disconnect_click: the application has no disconnect_from_server
\* attribute, so the call behind hasattr is not made; the buttons are switched
OnDisconnectClick ==
    /\ recv_pc = "idle"
    /\ buttons.disconnect = "enabled"
    /\ buttons' = [connect |-> "enabled", disconnect |-> "disabled"]
    /\ app_call' = [call |-> "on_disconnect_click", raised |-> None, value |-> None]
    /\ UNCHANGED <<tcp_client, sent>>
    /\ UNCHANGED <<codec_vars, net_vars, ui_vars, file_vars, tx_vars>>

\* whether sendall raises socket.error: it does on a connection the peer has
\* reset, and it may on any connection (the socket has a timeout)
SendallOutcomes == IF peer = "reset" THEN {TRUE} ELSE {TRUE, FALSE}

\* the message built by Interrogations.send; of the Mode S form only the
\* Mode_S_Interrogation flag of the Signals enters it
InterrogationMessage(mode_s_select) ==
    [MessageName |-> "CM0", Mode_S_Interrogation |-> mode_s_select # 0]

\* MCS.send_message whose client does not check that it is connected
send_message_unchecked(message) ==
    /\ app_call' = [call |-> "send_message", raised |-> None, value |-> "True"]
    /\ Returned("send_message", "True")
    /\ sent' = Append(sent, [socket |-> socket, message |-> message])

\* the body of MCS.send_message(message): it returns False without a client
\* and turns an exception of TCPClient.send_message into False; the client
\* returns False when not connected, writes the frame, or, when sendall
\* raises, fails to evaluate its except clause (json.JSONEncodeError does not
\* exist) and so raises AttributeError without disconnecting
send_message(message) ==
    IF ~tcp_client
    THEN /\ app_call' = [call |-> "send_message", raised |-> None, value |-> "False"]
         /\ UNCHANGED <<sent, last_call>>
    ELSE IF socket = 0 \/ ~running
    THEN /\ app_call' = [call |-> "send_message", raised |-> None, value |-> "False"]
         /\ Returned("send_message", "False")
         /\ UNCHANGED sent
    ELSE \E sendall_raises \in SendallOutcomes :
             IF sendall_raises
             THEN /\ app_call' = [call |-> "send_message", raised |-> "AttributeError",
                                  value |-> "False"]
                  /\ Returned("send_message", "AttributeError")
                  /\ UNCHANGED sent
             ELSE /\ app_call' = [call |-> "send_message", raised |-> None,
                                  value |-> "True"]
                  /\ Returned("send_message", "True")
                  /\ sent' = Append(sent, [socket |-> socket, message |-> message])

\* MCS.send_message(message) called with a record
SendMessage(message) ==
    /\ recv_pc = "idle"
    /\ Len(sent) < MaxSent
    /\ send_message(message)
    /\ UNCHANGED <<socket, running, buffer, recv_pc, callbacks, worker, fds, peer,
                   wire, partial>>
    /\ UNCHANGED <<tcp_client, buttons>>
    /\ UNCHANGED <<codec_vars, ui_vars, file_vars, tx_vars>>

\* TCPClient.send_message(message) called on the client itself: False when
\* not connected, else the frame is written or, when sendall raises, the
\* call raises AttributeError and changes nothing
ClientSendMessage(message) ==
    /\ recv_pc = "idle"
    /\ Len(sent) < MaxSent
    /\ IF socket = 0 \/ ~running
       THEN /\ Returned("send_message", "False")
            /\ UNCHANGED sent
       ELSE \E sendall_raises \in SendallOutcomes :
                IF sendall_raises
                THEN /\ Returned("send_message", "AttributeError")
                     /\ UNCHANGED sent
                ELSE /\ Returned("send_message", "True")
                     /\ sent' = Append(sent, [socket |-> socket, message |-> message])
    /\ UNCHANGED <<socket, running, buffer, recv_pc, callbacks, worker, fds, peer,
                   wire, partial>>
    /\ UNCHANGED <<tcp_client, app_call, buttons>>
    /\ UNCHANGED <<codec_vars, ui_vars, file_vars, tx_vars>>

\* Interrogations.send with mode_s_select read from the Select: the word is
\* built by get_mode_s_data and shown in a notification, the message is built
\* and handed to MCS.send_message
Send(mode_s_select) ==
    /\ recv_pc = "idle"
    /\ Len(sent) < MaxSent
    /\ mode_s_word' = PackWord(values)
    /\ aircraft_address' = DecodeAddress(address_input)
    /\ send_message(InterrogationMessage(mode_s_select))
    /\ UNCHANGED <<socket, running, buffer, recv_pc, callbacks, worker, fds, peer,
                   wire, partial>>
    /\ UNCHANGED <<tcp_client, buttons>>
    /\ UNCHANGED <<widgets, address_input, form_pc>>
    /\ UNCHANGED <<ui_vars, file_vars, tx_vars>>

\* one pass of _network_worker_task: receive_data is called when a client exists
Poll ==
    /\ tcp_client
    /\ ReceiveData

\* the records MCS.send_message is called with in SpecApp
AppMessages == {InterrogationMessage(1)}

AppNext ==
    \/ \E host \in Hosts : \E port \in Ports : ConnectToServer(host, port)
    \/ \E host \in Hosts : \E port \in Ports : OnConnectClick(host, port)
    \/ OnDisconnectClick
    \/ \E message \in AppMessages : SendMessage(message)
    \/ Poll
    \/ \E n \in 1..Len(WireBytes(wire, partial)) : RecvData(n)
    \/ RecvTimeout
    \/ RecvClosed
    \/ RecvError
    \/ \E f \in AppFrames : PeerSend(f)
    \/ PeerClose
    \/ PeerReset

\* the operator sets the format, connects and sends interrogations
SendNext ==
    \/ \E val \in SendFormats : SetWidget("format", val)
    \/ ConnectToServer("127.0.0.1", 9000)
    \/ \E mode_s_select \in 0..1 : Send(mode_s_select)
    \/ PeerReset

(***************************************************************************)
(* The handoff of decoded messages to the display                          *)
(***************************************************************************)
\* the number of messages handed over in one behaviour
MaxMessages == 3

\* decoded messages: JSON objects with a MessageName, with a type, with neither
UiMessages == {[MessageName |-> "CM0"], [type |-> "status"], [id |-> 1]}

\* SCREENS of the application, and the methods of each that matter here
SCREENS == {"Main", "Interrogations"}

\* whether hasattr(screen, 'add_message'): Menu defines it, Interrogations does not
HasAddMessage(scr) == scr = "Main"

\* self.main_menu, which on_mount sets to the installed screen "Main" before
\* it starts the network worker, so before any message is decoded
main_menu == "Main"

\* compose() pushes the screen "Main"; nothing is decoded, scheduled or shown
UiInit ==
    /\ decoded = <<>>
    /\ scheduled = <<>>
    /\ rows = <<>>
    /\ screen = "Main"

\* MessageHandler.process_message(message) without the timestamp of the
\* clock: the name, with "type" and then "Unknown" as fallbacks, and the
\* message as raw data
process_message(message) ==
    [message_name |-> IF "MessageName" \in DOMAIN message THEN message.MessageName
                      ELSE IF "type" \in DOMAIN message THEN message.type
                      ELSE "Unknown",
     raw_data     |-> message]

\* Menu.add_message(message) on the mounted Menu screen: the processed
\* message becomes the last row of its table
add_message(table_rows, message) == Append(table_rows, process_message(message))

\* MCS._on_message_received(message), the callback of the TCPClient:
\* call_after_refresh puts the call of _process_message_in_ui_thread at the
\* end of the application's queue of callbacks
OnMessageReceived(message) ==
    /\ Len(decoded) < MaxMessages
    /\ decoded' = Append(decoded, message)
    /\ scheduled' = Append(scheduled, message)
    /\ UNCHANGED <<rows, screen>>
    /\ UNCHANGED <<codec_vars, net_vars, app_vars, file_vars, tx_vars>>

\* _process_message_in_ui_thread that also updates the current screen when
\* it is the main menu
ProcessMessageInUiThread_updates_current_too ==
    /\ scheduled # <<>>
    /\ LET message == Head(scheduled)
           first   == IF HasAddMessage(main_menu)
                      THEN add_message(rows, message) ELSE rows
       IN  rows' = IF HasAddMessage(screen)
                   THEN add_message(first, message) ELSE first
    /\ scheduled' = Tail(scheduled)
    /\ UNCHANGED <<decoded, screen>>
    /\ UNCHANGED <<codec_vars, net_vars, app_vars, file_vars, tx_vars>>

\* MCS._process_message_in_ui_thread(message), run for the callback at the
\* head of the queue: main_menu.add_message, then add_message of the current
\* screen if that is another screen and has the method
ProcessMessageInUiThread ==
    /\ scheduled # <<>>
    /\ LET message == Head(scheduled)
           first   == IF HasAddMessage(main_menu)
                      THEN add_message(rows, message) ELSE rows
       IN  rows' = IF screen # main_menu /\ HasAddMessage(screen)
                   THEN add_message(first, message) ELSE first
    /\ scheduled' = Tail(scheduled)
    /\ UNCHANGED <<decoded, screen>>
    /\ UNCHANGED <<codec_vars, net_vars, app_vars, file_vars, tx_vars>>

\* the binding "i" of the application and the Interrogations button of the
\* Menu: push_screen('Interrogations')
PushScreen ==
    /\ screen = "Main"
    /\ screen' = "Interrogations"
    /\ UNCHANGED <<decoded, scheduled, rows>>
    /\ UNCHANGED <<codec_vars, net_vars, app_vars, file_vars, tx_vars>>

\* the binding "escape" and the Back button of Interrogations: pop_screen()
PopScreen ==
    /\ screen = "Interrogations"
    /\ screen' = "Main"
    /\ UNCHANGED <<decoded, scheduled, rows>>
    /\ UNCHANGED <<codec_vars, net_vars, app_vars, file_vars, tx_vars>>

UiNext ==
    \/ \E message \in UiMessages : OnMessageReceived(message)
    \/ ProcessMessageInUiThread
    \/ PushScreen
    \/ PopScreen

(***************************************************************************)
(* Saving messages to a file: the Menu screen and its file-writer thread   *)
(***************************************************************************)
\* the number of file objects opened in one behaviour
MaxFiles == 2

\* the number of messages the model lets wait in the queue
MaxQueued == 2

\* the maxsize of queue.Queue(): 0, which the queue module reads as no limit
QUEUE_MAXSIZE == 0

\* the two threads that use the file: the thread of the user interface and
\* the thread "file-writer"
Threads == {"ui", "writer"}

\* messages that are queued for saving
SavedMessages == {"CM0"}

\* Menu.__init__ followed by on_mount, which starts the file-writer thread:
\* the Save checkbox is clear, no file is open, the queue is empty
FileInit ==
    /\ save_checkbox = FALSE
    /\ file_queue = <<>>
    /\ file_worker_running = TRUE
    /\ current_file = 0
    /\ files = <<>>
    /\ file_lock = "free"
    /\ pc = [thread \in Threads |-> IF thread = "ui" THEN "idle" ELSE "loop"]
    /\ ret = [thread \in Threads |-> IF thread = "ui" THEN "idle" ELSE "loop"]

\* the thread goes to the statement named
Goto(thread, label) == pc' = [pc EXCEPT ![thread] = label]

\* the thread calls _open_file or _close_file and continues at after
Call(thread, label, after) ==
    /\ pc' = [pc EXCEPT ![thread] = label]
    /\ ret' = [ret EXCEPT ![thread] = after]

\* whether file object number handle can be written, flushed and closed
Usable(handle) == handle # 0 /\ files[handle] = "open"

\* _open_file, its first statement: return if a file object is held
OpenFileCheck(thread) ==
    /\ pc[thread] = "open_check"
    /\ Goto(thread, IF current_file # 0 THEN ret[thread] ELSE "opening")
    /\ UNCHANGED <<save_checkbox, file_queue, file_worker_running, current_file,
                   files, file_lock, ret>>
    /\ UNCHANGED <<codec_vars, net_vars, app_vars, ui_vars, tx_vars>>

\* _open_file, the try block: open() gives a new file object, or it raises
\* and the handler clears the Save checkbox
OpenFile(thread) ==
    /\ pc[thread] = "opening"
    /\ \E opened \in (IF Len(files) < MaxFiles THEN BOOLEAN ELSE {FALSE}) :
           IF opened
           THEN /\ files' = Append(files, "open")
                /\ current_file' = Len(files) + 1
                /\ UNCHANGED save_checkbox
           ELSE /\ save_checkbox' = FALSE
                /\ UNCHANGED <<files, current_file>>
    /\ Goto(thread, ret[thread])
    /\ UNCHANGED <<file_queue, file_worker_running, file_lock, ret>>
    /\ UNCHANGED <<codec_vars, net_vars, app_vars, ui_vars, tx_vars>>

\* _close_file, its first statement: return if no file object is held
CloseFileCheck(thread) ==
    /\ pc[thread] = "close_check"
    /\ Goto(thread, IF current_file = 0 THEN ret[thread] ELSE "close_acquire")
    /\ UNCHANGED <<save_checkbox, file_queue, file_worker_running, current_file,
                   files, file_lock, ret>>
    /\ UNCHANGED <<codec_vars, net_vars, app_vars, ui_vars, tx_vars>>

\* _close_file, "with self._file_lock": threading.Lock is not reentrant, the
\* thread waits until the lock is free, whoever holds it
CloseFileAcquire(thread) ==
    /\ pc[thread] = "close_acquire"
    /\ file_lock = "free"
    /\ file_lock' = thread
    /\ Goto(thread, "close_locked")
    /\ UNCHANGED <<save_checkbox, file_queue, file_worker_running, current_file,
                   files, ret>>
    /\ UNCHANGED <<codec_vars, net_vars, app_vars, ui_vars, tx_vars>>

\* _close_file, the body of the with statement: flush() and close() on what
\* self._current_file is now (an exception on None or on a closed file is
\* caught); the lock is released on the way out
CloseFileLocked(thread) ==
    /\ pc[thread] = "close_locked"
    /\ files' = IF Usable(current_file)
                THEN [files EXCEPT ![current_file] = "closed"] ELSE files
    /\ file_lock' = "free"
    /\ Goto(thread, "close_finally")
    /\ UNCHANGED <<save_checkbox, file_queue, file_worker_running, current_file, ret>>
    /\ UNCHANGED <<codec_vars, net_vars, app_vars, ui_vars, tx_vars>>

\* _close_file, the finally clause: self._current_file = None
CloseFileFinally(thread) ==
    /\ pc[thread] = "close_finally"
    /\ current_file' = 0
    /\ Goto(thread, ret[thread])
    /\ UNCHANGED <<save_checkbox, file_queue, file_worker_running, files, file_lock, ret>>
    /\ UNCHANGED <<codec_vars, net_vars, app_vars, ui_vars, tx_vars>>

\* _file_writer_loop, the loop condition and queue.get(timeout=0.5): the
\* thread ends when the flag is clear, takes the oldest message, or starts
\* over after queue.Empty
WriterGet ==
    /\ pc["writer"] = "loop"
    /\ IF ~file_worker_running
       THEN Goto("writer", "done") /\ UNCHANGED file_queue
       ELSE IF file_queue = <<>>
       THEN UNCHANGED <<pc, file_queue>>
       ELSE Goto("writer", "check_save") /\ file_queue' = Tail(file_queue)
    /\ UNCHANGED <<save_checkbox, file_worker_running, current_file, files, file_lock, ret>>
    /\ UNCHANGED <<codec_vars, net_vars, app_vars, ui_vars, tx_vars>>

\* _file_writer_loop, lines 149-154: the message is dropped unless the
\* Save checkbox is set; _open_file is called if no file object is held
WriterCheckSave ==
    /\ pc["writer"] = "check_save"
    /\ IF ~save_checkbox
       THEN Goto("writer", "loop") /\ UNCHANGED ret
       ELSE IF current_file = 0
       THEN Call("writer", "open_check", "check_write")
       ELSE Goto("writer", "check_write") /\ UNCHANGED ret
    /\ UNCHANGED <<save_checkbox, file_queue, file_worker_running, current_file,
                   files, file_lock>>
    /\ UNCHANGED <<codec_vars, net_vars, app_vars, ui_vars, tx_vars>>

\* _file_writer_loop, line 157: the test of self._current_file made before
\* the lock is taken
WriterCheckWrite ==
    /\ pc["writer"] = "check_write"
    /\ Goto("writer", IF current_file # 0 THEN "acquire" ELSE "loop")
    /\ UNCHANGED <<save_checkbox, file_queue, file_worker_running, current_file,
                   files, file_lock, ret>>
    /\ UNCHANGED <<codec_vars, net_vars, app_vars, ui_vars, tx_vars>>

\* _file_writer_loop, line 158: with self._file_lock
WriterAcquire ==
    /\ pc["writer"] = "acquire"
    /\ file_lock = "free"
    /\ file_lock' = "writer"
    /\ Goto("writer", "write")
    /\ UNCHANGED <<save_checkbox, file_queue, file_worker_running, current_file,
                   files, ret>>
    /\ UNCHANGED <<codec_vars, net_vars, app_vars, ui_vars, tx_vars>>

\* _file_writer_loop, line 160: self._current_file.write(...) on what
\* self._current_file is now. It raises on None, on a closed file and when
\* the write fails; the handler then calls _close_file, the lock still
\* held. Else the flush is due or not (100 messages or one second), and
\* without a flush the with statement ends and the lock is released
WriterWrite ==
    /\ pc["writer"] = "write"
    /\ \E written \in (IF Usable(current_file) THEN BOOLEAN ELSE {FALSE}) :
           IF ~written
           THEN /\ Call("writer", "close_check", "clear_checkbox")
                /\ UNCHANGED file_lock
           ELSE \E flush_due \in BOOLEAN :
                    IF flush_due
                    THEN /\ Goto("writer", "flush")
                         /\ UNCHANGED <<file_lock, ret>>
                    ELSE /\ Goto("writer", "loop")
                         /\ file_lock' = "free"
                         /\ UNCHANGED ret
    /\ UNCHANGED <<save_checkbox, file_queue, file_worker_running, current_file, files>>
    /\ UNCHANGED <<codec_vars, net_vars, app_vars, ui_vars, tx_vars>>

\* _file_writer_loop, line 167: self._current_file.flush(), which raises on
\* None and on a closed file; else the with statement ends
WriterFlush ==
    /\ pc["writer"] = "flush"
    /\ IF Usable(current_file)
       THEN /\ Goto("writer", "loop")
            /\ file_lock' = "free"
            /\ UNCHANGED ret
       ELSE /\ Call("writer", "close_check", "clear_checkbox")
            /\ UNCHANGED file_lock
    /\ UNCHANGED <<save_checkbox, file_queue, file_worker_running, current_file, files>>
    /\ UNCHANGED <<codec_vars, net_vars, app_vars, ui_vars, tx_vars>>

\* _file_writer_loop, lines 174-175, after _close_file returned: the Save
\* checkbox is cleared, the with statement ends and the lock is released
WriterClearCheckbox ==
    /\ pc["writer"] = "clear_checkbox"
    /\ save_checkbox' = FALSE
    /\ file_lock' = "free"
    /\ Goto("writer", "loop")
    /\ UNCHANGED <<file_queue, file_worker_running, current_file, files, ret>>
    /\ UNCHANGED <<codec_vars, net_vars, app_vars, ui_vars, tx_vars>>

\* the operator sets or clears the Save checkbox: on_save_checkbox_changed
\* calls _open_file or _close_file on the thread of the user interface
OnSaveCheckboxChanged ==
    /\ pc["ui"] = "idle"
    /\ save_checkbox' = ~save_checkbox
    /\ Call("ui", IF save_checkbox THEN "close_check" ELSE "open_check", "idle")
    /\ UNCHANGED <<file_queue, file_worker_running, current_file, files, file_lock>>
    /\ UNCHANGED <<codec_vars, net_vars, app_vars, ui_vars, tx_vars>>

\* Queue.put_nowait(item) on a queue whose maxsize is maxsize: queue.Full
\* is raised only if maxsize > 0 and that many items wait
put_nowait(items, item, maxsize) ==
    IF maxsize > 0 /\ Len(items) >= maxsize
    THEN [raised |-> "Full", items |-> items]
    ELSE [raised |-> "None", items |-> Append(items, item)]

\* _queue_message_for_saving(message), called by add_message on the thread
\* of the user interface: nothing if the Save checkbox is clear
QueueMessageForSaving(message) ==
    /\ pc["ui"] = "idle"
    /\ Len(file_queue) < MaxQueued
    /\ file_queue' = IF save_checkbox
                     THEN put_nowait(file_queue, message, QUEUE_MAXSIZE).items
                     ELSE file_queue
    /\ UNCHANGED <<save_checkbox, file_worker_running, current_file, files,
                   file_lock, pc, ret>>
    /\ UNCHANGED <<codec_vars, net_vars, app_vars, ui_vars, tx_vars>>

\* on_unmount: _stop_file_worker clears the flag, joins the thread for at
\* most two seconds, whether it ended or not, and calls _close_file
StopFileWorker ==
    /\ pc["ui"] = "idle"
    /\ file_worker_running' = FALSE
    /\ Call("ui", "close_check", "unmounted")
    /\ UNCHANGED <<save_checkbox, file_queue, current_file, files, file_lock>>
    /\ UNCHANGED <<codec_vars, net_vars, app_vars, ui_vars, tx_vars>>

FileNext ==
    \/ OnSaveCheckboxChanged
    \/ \E message \in SavedMessages : QueueMessageForSaving(message)
    \/ StopFileWorker
    \/ WriterGet
    \/ WriterCheckSave
    \/ WriterCheckWrite
    \/ WriterAcquire
    \/ WriterWrite
    \/ WriterFlush
    \/ WriterClearCheckbox
    \/ \E thread \in Threads :
           \/ OpenFileCheck(thread)
           \/ OpenFile(thread)
           \/ CloseFileCheck(thread)
           \/ CloseFileAcquire(thread)
           \/ CloseFileLocked(thread)
           \/ CloseFileFinally(thread)

(***************************************************************************)
(* The text send_message makes of a record                                 *)
(***************************************************************************)
\* the number of characters typed into the keys and values of one record
MaxChars == 3

\* the number of fields of one record
MaxFields == 2

\* characters of keys and values: a letter, the newline, the quotation mark
\* and the backslash
RecordChars == {"a", LF, QUOTE, "\\"}

\* an empty record, nothing given to sendall yet
TxInit ==
    /\ tx_message = <<>>
    /\ tx_frame = <<>>

\* the characters of all keys and values of the record
RecordSize(fields) ==
    LET RECURSIVE Size(_)
        Size(i) == IF i = 0 THEN 0
                   ELSE Len(fields[i].key) + Len(fields[i].value) + Size(i - 1)
    IN  Size(Len(fields))

\* the caller adds a field, with an empty key and an empty string as value
AddField ==
    /\ tx_frame = <<>>
    /\ Len(tx_message) < MaxFields
    /\ tx_message' = Append(tx_message, [key |-> <<>>, value |-> <<>>])
    /\ UNCHANGED tx_frame
    /\ UNCHANGED <<codec_vars, net_vars, app_vars, ui_vars, file_vars>>

\* the caller extends the key of the last field by one character
ExtendKey(c) ==
    /\ tx_frame = <<>>
    /\ tx_message # <<>>
    /\ RecordSize(tx_message) < MaxChars
    /\ tx_message' = [tx_message EXCEPT ![Len(tx_message)].key = Append(@, c)]
    /\ UNCHANGED tx_frame
    /\ UNCHANGED <<codec_vars, net_vars, app_vars, ui_vars, file_vars>>

\* the caller extends the value of the last field by one character
ExtendValue(c) ==
    /\ tx_frame = <<>>
    /\ tx_message # <<>>
    /\ RecordSize(tx_message) < MaxChars
    /\ tx_message' = [tx_message EXCEPT ![Len(tx_message)].value = Append(@, c)]
    /\ UNCHANGED tx_frame
    /\ UNCHANGED <<codec_vars, net_vars, app_vars, ui_vars, file_vars>>

\* the JSON text of one character of a string, as json.dumps writes it with
\* ensure_ascii=False: the quotation mark, the backslash and the newline are
\* escaped, the newline as a backslash and the letter n
EscapeChar(c) ==
    CASE c = QUOTE -> <<"\\", QUOTE>>
      [] c = "\\"  -> <<"\\", "\\">>
      [] c = LF    -> <<"\\", "n">>
      [] OTHER     -> <<c>>

\* the JSON text of a string, with every character copied as it is
JsonString_raw(s) ==
    LET RECURSIVE Body(_)
        Body(rest) == IF rest = <<>> THEN <<>>
                      ELSE <<Head(rest)>> \o Body(Tail(rest))
    IN  <<QUOTE>> \o Body(s) \o <<QUOTE>>

\* the JSON text of a string: its escaped characters between quotation marks
JsonString(s) ==
    LET RECURSIVE Body(_)
        Body(rest) == IF rest = <<>> THEN <<>>
                      ELSE EscapeChar(Head(rest)) \o Body(Tail(rest))
    IN  <<QUOTE>> \o Body(s) \o <<QUOTE>>

\* json.dumps(message, ensure_ascii=False) of a record whose values are
\* strings: "key": "value" items, separated by a comma and a space, in braces
JsonDumps(fields) ==
    LET RECURSIVE Items(_)
        Items(i) == IF i > Len(fields) THEN <<>>
                    ELSE (IF i > 1 THEN <<",", " ">> ELSE <<>>)
                         \o JsonString(fields[i].key) \o <<":", " ">>
                         \o JsonString(fields[i].value) \o Items(i + 1)
    IN  <<"{">> \o Items(1) \o <<"}">>

\* send_message(message) on a connected client, up to the call of sendall:
\* message_str = json.dumps(message, ensure_ascii=False) + "\n"
TxSendMessage ==
    /\ tx_frame = <<>>
    /\ tx_frame' = JsonDumps(tx_message) \o <<LF>>
    /\ UNCHANGED tx_message
    /\ UNCHANGED <<codec_vars, net_vars, app_vars, ui_vars, file_vars>>

TxNext ==
    \/ AddField
    \/ \E c \in RecordChars : ExtendKey(c)
    \/ \E c \in RecordChars : ExtendValue(c)
    \/ TxSendMessage

Init == CodecInit /\ NetInit /\ AppInit /\ UiInit /\ FileInit /\ TxInit

\* an operator fills the Mode S form and the word is built from it
SpecCodec == Init /\ [][CodecNext]_vars

\* one TCPClient, the calls made on it and its peer
SpecNet == Init /\ [][NetNext]_vars

\* one call of self.socket.recv inside receive_data: it returns data, returns
\* b"", raises socket.timeout after SOCKET_TIMEOUT or raises socket.error
Recv ==
    \/ RecvTimeout
    \/ RecvClosed
    \/ RecvError
    \/ \E n \in 1..Len(WireBytes(wire, partial)) : RecvData(n)

\* a connected client whose peer sends frames of every kind
FramesNext ==
    \/ ConnectOk
    \/ ReceiveData
    \/ \E n \in 1..Len(WireBytes(wire, partial)) : RecvData(n)
    \/ RecvTimeout
    \/ \E f \in BufferFrameIds : PeerSend(f)

\* the receive path of one connection
SpecFrames == Init /\ [][FramesNext]_vars

\* the session and its peer, where a recv that was called returns
SpecPoll == Init /\ [][NetNext]_vars /\ WF_vars(Recv)

\* the calls a user of TCPClient can make on one client, with every outcome
\* of the socket operations, and the peer
SessionNext ==
    \/ ConnectAlready
    \/ ConnectOk
    \/ ConnectFail
    \/ Disconnect
    \/ \E message \in AppMessages : ClientSendMessage(message)
    \/ ReceiveData
    \/ \E n \in 1..Len(WireBytes(wire, partial)) : RecvData(n)
    \/ RecvTimeout
    \/ RecvClosed
    \/ RecvError
    \/ \E f \in AppFrames : PeerSend(f)
    \/ PeerClose
    \/ PeerReset

\* one TCPClient on which connect, disconnect, send_message and receive_data
\* are called in any order
SpecSession == Init /\ [][SessionNext]_vars

\* the application, its operator and the server
SpecApp == Init /\ [][AppNext]_vars

\* the Interrogations screen and the frames its send action writes
SpecSend == Init /\ [][SendNext]_vars

SpecUi == Init /\ [][UiNext]_vars

SpecFile == Init /\ [][FileNext]_vars

SpecTx == Init /\ [][TxNext]_vars

(***************************************************************************)
(* Properties of the word codec (checked under SpecCodec)                  *)
(***************************************************************************)
\* bits first..last of a word, bit 1 being the most significant of the 32
WordField(w, first, last) ==
    IF last <= 16
    THEN (w.hi \div Pow2(16 - last)) % Pow2(last - first + 1)
    ELSE (w.lo \div Pow2(32 - last)) % Pow2(last - first + 1)

\* a value masked to a width of n bits
Masked(x, n) == x % Pow2(n)

Clamped(x) == IF x < 0 THEN 0 ELSE IF x > 31 THEN 31 ELSE x

Built == form_pc = "built"

\* the documented sub-layout carries rr and sis as given: the values the
\* word must carry in bits 9-13 and, for designator 3, in bits 17-21
SubLayoutCarries(rr, sis) ==
    LET w == mode_s_word
        d == widgets["designator"]
    IN  /\ WordField(w, 1, 5) = Masked(widgets["format"], 5)
        /\ WordField(w, 6, 8) = Masked(widgets["protocol"], 3)
        /\ WordField(w, 9, 13) = rr
        /\ WordField(w, 14, 16) = Masked(d, 3)
        /\ d = 0 => WordField(w, 17, 20) = Masked(widgets["iis"], 4)
        /\ d = 1 => /\ WordField(w, 17, 20) = Masked(widgets["iis"], 4)
                    /\ WordField(w, 21, 22) = Masked(widgets["mbs"], 2)
                    /\ WordField(w, 23, 25) = Masked(widgets["mes"], 3)
                    /\ WordField(w, 26, 26) = Masked(widgets["los"], 1)
                    /\ WordField(w, 27, 28) = Masked(widgets["rss"], 2)
                    /\ WordField(w, 29, 32) = Masked(widgets["tms"], 4)
        /\ d = 2 => /\ WordField(w, 22, 24) = Masked(widgets["tcs"], 3)
                    /\ WordField(w, 25, 27) = Masked(widgets["rcs"], 3)
                    /\ WordField(w, 28, 29) = Masked(widgets["sas"], 2)
        /\ d = 3 => /\ WordField(w, 17, 21) = sis
                    /\ WordField(w, 22, 22) = Masked(widgets["lss"], 1)
                    /\ WordField(w, 23, 26) = Masked(widgets["rrs"], 4)
        /\ d = 7 => /\ WordField(w, 17, 20) = Masked(widgets["iis"], 4)
                    /\ WordField(w, 21, 24) = Masked(widgets["rrs"], 4)
                    /\ WordField(w, 26, 26) = Masked(widgets["los"], 1)
                    /\ WordField(w, 29, 32) = Masked(widgets["tms"], 4)

SurveillanceCase ==
    /\ Built
    /\ widgets["format"] \in {4, 5, 20, 21}
    /\ widgets["designator"] \in {0, 1, 2, 3, 7}

\* C1 (as stated): for every format in {4,5,20,21} and designator in
\* {0,1,2,3,7} the word carries in every documented bit range the input field
\* value masked to the width of the range -- reply-request and SIS included.
C1_RoundTripMaskedInput ==
    SurveillanceCase =>
        SubLayoutCarries(Masked(widgets["reply-request"], 5), Masked(widgets["sis"], 5))

\* C1 (amended): for every format in {4,5,20,21} and designator in {0,1,2,3,7}
\* the word carries in every documented bit range the input field value masked
\* to the width of the range, where the reply-request and SIS inputs are first
\* clamped to [0,31].
C1_RoundTripClampedThenMasked ==
    SurveillanceCase =>
        SubLayoutCarries(Masked(Clamped(widgets["reply-request"]), 5),
                         Masked(Clamped(widgets["sis"]), 5))

\* a word of format 21 (bit 1 set) and designator 3 built from an SIS input
\* beyond 31
C1_Witness ==
    /\ SurveillanceCase
    /\ widgets["format"] = 21
    /\ widgets["designator"] = 3
    /\ widgets["sis"] = 40

\* C24: in a word of format 4, 5, 20 or 21, bits 9-13 carry 31 for a
\* reply-request input above 31, 0 for a negative one and the input itself
\* otherwise, and so do bits 17-21 for the SIS input under designator 3; every
\* other sub-field carries its input masked to its width.
C24_ReplyRequestAndSisClamped ==
    (Built /\ widgets["format"] \in {4, 5, 20, 21}) =>
        LET rr  == widgets["reply-request"]
            sis == widgets["sis"]
        IN  /\ rr > 31 => WordField(mode_s_word, 9, 13) = 31
            /\ rr < 0 => WordField(mode_s_word, 9, 13) = 0
            /\ rr \in 0..31 => WordField(mode_s_word, 9, 13) = rr
            /\ widgets["designator"] = 3 =>
                   /\ sis > 31 => WordField(mode_s_word, 17, 21) = 31
                   /\ sis < 0 => WordField(mode_s_word, 17, 21) = 0
                   /\ sis \in 0..31 => WordField(mode_s_word, 17, 21) = sis
            /\ widgets["designator"] \in HandledDesignators =>
                   SubLayoutCarries(WordField(mode_s_word, 9, 13),
                                    WordField(mode_s_word, 17, 21))

\* a word of format 5 built from a negative reply-request input and a
\* protocol input beyond its three bits
C24_Witness ==
    /\ Built
    /\ widgets["format"] = 5
    /\ widgets["reply-request"] = -1
    /\ widgets["protocol"] = 9

\* C2: for format 11 or 17 the low 16 bits (bits 17-32) of the word are zero
\* for every value of every input field.
C2_AllCallLowBitsZero ==
    (Built /\ widgets["format"] \in {11, 17}) => mode_s_word.lo = 0

\* a format 17 word built while a field of the low half and the code label
\* are set
C2_Witness ==
    /\ Built
    /\ widgets["format"] = 17
    /\ widgets["code-label"] = 7
    /\ widgets["tms"] = 15

\* C3: for every format outside {4,5,11,17,20,21} the word equals
\* (format & 0x1F) << 27, i.e. bits 6-32 are zero whatever the other fields are.
C3_OtherFormatOnlyFormatBits ==
    (Built /\ widgets["format"] \notin {4, 5, 11, 17, 20, 21}) =>
        /\ mode_s_word.hi = Masked(widgets["format"], 5) * Pow2(11)
        /\ mode_s_word.lo = 0

\* a word built for format 36 (whose low five bits are those of format 4)
\* while the protocol and the IIS are set
C3_Witness ==
    /\ Built
    /\ widgets["format"] = 36
    /\ widgets["protocol"] = 7
    /\ widgets["iis"] = 15

(***************************************************************************)
(* Properties of the address decoding (checked under SpecCodec)            *)
(***************************************************************************)
\* the text without its leading and trailing spaces, by positions
Trimmed(text) ==
    LET nonspace == {i \in 1..Len(text) : text[i] # " "} IN
    IF nonspace = {} THEN <<>>
    ELSE SubSeq(text, CHOOSE i \in nonspace : \A j \in nonspace : i <= j,
                      CHOOSE i \in nonspace : \A j \in nonspace : i >= j)

\* a base-16 numeral: an optional sign and at least one hexadecimal digit
IsHexNumeral(t) ==
    LET digits == IF t # <<>> /\ t[1] = "-" THEN Tail(t) ELSE t IN
    /\ digits # <<>>
    /\ \A i \in 1..Len(digits) : digits[i] \in HexDigits

RECURSIVE PositionalValue(_, _)
PositionalValue(digits, n) ==
    IF n = 0 THEN 0
    ELSE HexDigitValue(digits[n]) * Pow2(4 * (Len(digits) - n))
         + PositionalValue(digits, n - 1)

HexNumeralValue(t) ==
    IF t[1] = "-" THEN 0 - PositionalValue(Tail(t), Len(t) - 1)
    ELSE PositionalValue(t, Len(t))

\* C4: address decoding strips surrounding whitespace, returns the base-16
\* value of a text that is a base-16 numeral, and returns 0 (never an error)
\* for an empty text and for a text that is not a base-16 numeral.
C4_AddressDecode ==
    Built =>
        LET t == Trimmed(address_input) IN
        aircraft_address = IF IsHexNumeral(t) THEN HexNumeralValue(t) ELSE 0

\* an address built from a text with surrounding spaces and six hex digits
C4_Witness ==
    /\ Built
    /\ address_input = <<" ", "0", "A", "1", "B", "2", "C", " ">>
    /\ aircraft_address = 662316

\* an address built from a text that is not a base-16 numeral
C4_WitnessInvalid ==
    /\ Built
    /\ address_input = <<"Z", "Z", "Z", "Z", "Z", "Z">>
    /\ aircraft_address = 0

\* C5: for every input text the decoded aircraft address is a 24-bit unsigned
\* value, i.e. it lies in 0 .. 2^24 - 1.
C5_Address24Bit ==
    Built => aircraft_address \in 0..(Pow2(24) - 1)


(***************************************************************************)
(* Claims about the receive path and the session                           *)
(***************************************************************************)
\* a step of the receive loop in which recv returned data
RecvStep ==
    /\ recv_pc = "loop"
    /\ peer' = peer
    /\ Len(WireBytes(wire', partial')) < Len(WireBytes(wire, partial))

\* the frames whose newline recv returned in this step, and those of them
\* whose every byte it returned in this step
CompletedFrames == SubSeq(wire, 1, Len(wire) - Len(wire'))
WholeFrames ==
    IF partial > 0 /\ CompletedFrames # <<>> THEN Tail(CompletedFrames) ELSE CompletedFrames

\* a frame is valid when its text is a JSON object, malformed when it is not
\* JSON; MessageOf is the object a valid frame carries
FrameIsValid(f) ==
    LET v == JsonLoads(Decode(FrameBytes(f))) IN v.st = "ok" /\ v.kind = "object"
FrameIsMalformed(f) == JsonLoads(Decode(FrameBytes(f))).st # "ok"
MessageOf(f) == JsonLoads(Decode(FrameBytes(f))).canon

RECURSIVE MessagesOf(_)
MessagesOf(frames) ==
    IF frames = <<>> THEN <<>>
    ELSE (IF FrameIsValid(Head(frames)) THEN <<MessageOf(Head(frames))>> ELSE <<>>)
         \o MessagesOf(Tail(frames))

\* the callback invocations this step added, given that it removed none
NewCallbacks == SubSeq(callbacks', Len(callbacks) + 1, Len(callbacks'))
KeepsCallbacks ==
    /\ Len(callbacks') >= Len(callbacks)
    /\ SubSeq(callbacks', 1, Len(callbacks)) = callbacks

\* the last Len(msgs) invocations of this step are msgs, in order
EndsWith(msgs) ==
    /\ Len(NewCallbacks) >= Len(msgs)
    /\ SubSeq(NewCallbacks, Len(NewCallbacks) - Len(msgs) + 1, Len(NewCallbacks)) = msgs

\* C6: when the bytes one recv returns contain several complete frames, the
\* callback is invoked once for each valid one of them, in the order in which
\* they appear in the chunk (a frame begun in an earlier chunk and finished
\* by this one may add one invocation before them).
C6_OncePerValidFrameInOrder ==
    [][(RecvStep /\ Len(WholeFrames) >= 2) =>
          /\ KeepsCallbacks
          /\ EndsWith(MessagesOf(WholeFrames))
          /\ Len(NewCallbacks) <= Len(MessagesOf(WholeFrames))
                                    + (IF partial > 0 THEN 1 ELSE 0)]_vars

\* C7: a frame whose bytes arrive in two receive events causes no callback
\* on the first event and exactly one on the second, with the message the
\* frame dispatches when it arrives in one event, wherever the split falls.
C7_SplitFrameSameMessageOnce ==
    [][RecvStep =>
          /\ (Len(wire') = Len(wire)) => callbacks' = callbacks
          /\ (partial > 0 /\ Len(wire') < Len(wire) /\ FrameIsValid(Head(wire))) =>
                 /\ KeepsCallbacks
                 /\ Len(NewCallbacks) >= 1
                 /\ NewCallbacks[1] = MessageOf(Head(wire))
                 /\ (Len(wire') = Len(wire) - 1) => Len(NewCallbacks) = 1]_vars

\* C8: a receive step that completes a frame that is not JSON leaves no
\* complete frame in the buffer, invokes the callback for exactly the valid
\* frames it completes, in order, lets the receive loop go on without an
\* exception, and leaves socket and running as they were.
C8_MalformedFrameDroppedSilently ==
    [][(RecvStep /\ \E i \in 1..Len(CompletedFrames) : FrameIsMalformed(CompletedFrames[i])) =>
          /\ ~HasLF(buffer')
          /\ KeepsCallbacks
          /\ Len(NewCallbacks) = Len(MessagesOf(CompletedFrames))
          /\ EndsWith(MessagesOf(WholeFrames))
          /\ recv_pc' = "loop" /\ worker' = worker /\ last_call' = last_call
          /\ socket' = socket /\ running' = running]_vars

\* C9: every disconnect() returns without an error and leaves no socket and
\* running = False, no socket is ever closed more than once, and a
\* disconnect() made when no socket is held (never connected, or already
\* disconnected) closes nothing.
C9_DisconnectIdempotent ==
    [][Disconnect =>
          /\ last_call'.value = "None"
          /\ socket' = 0
          /\ running' = FALSE
          /\ \A i \in 1..Len(fds') : fds'[i].closes <= 1
          /\ (socket = 0) => fds' = fds]_vars

\* a disconnect() made on a session already disconnected, whose socket was
\* closed once
C9_Witness ==
    /\ last_call = [call |-> "disconnect", held |-> FALSE, value |-> "None"]
    /\ socket = 0
    /\ ~running
    /\ Len(fds) >= 1
    /\ fds[1].connected
    /\ fds[1].closes = 1

\* C10: a connect() whose attempt fails returns False after that one attempt
\* and leaves no socket held and running = False.
C10_FailedConnectLeavesDisconnected ==
    [][ConnectFail =>
          /\ last_call'.value = "False"
          /\ Len(fds') = Len(fds) + 1
          /\ ~fds'[Len(fds')].connected
          /\ ~fds'[Len(fds')].held
          /\ socket' = 0
          /\ running' = FALSE]_vars

\* a connect() that succeeded after a connect() that failed
C10_Witness ==
    /\ last_call = [call |-> "connect", held |-> FALSE, value |-> "True"]
    /\ Len(fds) = 2
    /\ ~fds[1].connected
    /\ fds[2].connected
    /\ socket = 2
    /\ running

\* C13: a receive_data call in which recv returns no bytes (the peer closed)
\* or raises a socket error ends with no socket held and running = False,
\* having invoked no callback in that step; and while no socket is held no
\* step invokes the callback, so none is invoked until a connect succeeds.
C13_PeerCloseOrErrorDisconnects ==
    [][/\ (RecvClosed \/ RecvError) =>
              /\ socket' = 0
              /\ running' = FALSE
              /\ recv_pc' = "idle"
              /\ last_call' = [call |-> "receive_data", held |-> TRUE, value |-> "None"]
              /\ callbacks' = callbacks
       /\ (socket = 0) => callbacks' = callbacks]_vars

\* a poll that found the connection closed or broken, after a message had
\* been dispatched on it
C13_Witness ==
    /\ last_call = [call |-> "receive_data", held |-> TRUE, value |-> "None"]
    /\ socket = 0
    /\ ~running
    /\ recv_pc = "idle"
    /\ Len(callbacks) >= 1

\* the bytes recv returned in this step
Received ==
    LET pending == WireBytes(wire, partial)
    IN  SubSeq(pending, 1, Len(pending) - Len(WireBytes(wire', partial')))

\* a frame is empty or whitespace only
FrameIsBlank(f) == Strip(Decode(FrameBytes(f))) = <<>>

\* C28: in every receive step the callback is invoked with JSON objects
\* only; when _process_buffer returns, the buffer contains no newline, the
\* callback was invoked for exactly the objects among the frames completed
\* (so not for a number, a string, an array, null, or a segment of
\* whitespace only), and the only warnings are those for segments that are
\* neither blank nor JSON.
C28_CallbackOnlyForObjects ==
    [][RecvStep =>
          /\ KeepsCallbacks
          /\ \A i \in 1..Len(NewCallbacks) :
                 JsonLoads(NewCallbacks[i]).kind = "object"
          /\ recv_pc' = "loop" =>
                 /\ ~HasLF(buffer')
                 /\ NewCallbacks = MessagesOf(CompletedFrames)
                 /\ Warnings(buffer \o Decode(Received))
                        = Cardinality({i \in 1..Len(CompletedFrames) :
                                           /\ FrameIsMalformed(CompletedFrames[i])
                                           /\ ~FrameIsBlank(CompletedFrames[i])})]_vars

\* a receive step has consumed a frame of whitespace only, whose newline
\* came with the first two bytes of an array frame: _process_buffer returned,
\* the callback was not invoked and the buffer holds the two bytes
C28_Witness ==
    /\ recv_pc = "loop"
    /\ callbacks = <<>>
    /\ buffer = <<"[", "1">>
    /\ wire = <<7>>
    /\ partial = 2

\* C27: in every state reached through connect, disconnect, send_message
\* and receive_data calls, whatever succeeds and fails, running = True
\* implies that the session holds a socket.
C27_RunningImpliesSocket == running => socket # 0

\* a session still running and holding its socket after a send on it failed
C27_Witness ==
    /\ last_call.call = "send_message"
    /\ last_call.value = "AttributeError"
    /\ running
    /\ socket # 0
    /\ peer = "reset"

\* C26: every receive_data call that entered its loop returns, also when
\* the peer keeps sending.
C26_PollTerminates == (recv_pc = "loop") ~> (recv_pc = "idle")

(***************************************************************************)
(* Claims about the application                                            *)
(***************************************************************************)
\* a call of MCS.send_message
SendMessageStep == \E message \in AppMessages : SendMessage(message)

\* the session is Connected: the application holds a client that holds a
\* socket and is running
Connected == tcp_client /\ socket # 0 /\ running

\* C11: a send_message made while Connected that writes nothing (the socket
\* write failed) leaves no socket and running = False, and returns False
\* without an exception, from the client as from the application.
C11_WriteFailureDisconnects ==
    [][(SendMessageStep /\ Connected /\ sent' = sent) =>
          /\ socket' = 0
          /\ running' = FALSE
          /\ last_call'.value = "False"
          /\ app_call'.value = "False"
          /\ app_call'.raised = None]_vars

\* C12: a send_message made while not Connected returns False without an
\* exception, writes nothing and leaves the client, its socket, running,
\* the receive buffer and the sockets of the system as they were.
C12_SendWhenNotConnected ==
    [][(SendMessageStep /\ ~Connected) =>
          /\ app_call'.value = "False"
          /\ app_call'.raised = None
          /\ sent' = sent
          /\ UNCHANGED <<tcp_client, socket, running, buffer, fds, peer>>]_vars

\* a send_message refused after a connect that failed
C12_Witness ==
    /\ app_call = [call |-> "send_message", raised |-> None, value |-> "False"]
    /\ tcp_client
    /\ socket = 0
    /\ ~running
    /\ sent = <<>>
    /\ Len(fds) >= 1
    /\ ~fds[Len(fds)].connected

\* a connect request with a valid endpoint, through the button or not
ConnectRequest ==
    \E host \in Hosts : \E port \in Ports :
        /\ ValidEndpoint(host, port)
        /\ ConnectToServer(host, port) \/ OnConnectClick(host, port)

\* the sockets created and not closed: close() is the only operation of the
\* program that closes one; a socket dropped without it stays open until the
\* interpreter finalises the object
OpenSockets == {i \in 1..Len(fds) : fds[i].closes = 0}

\* C14: a connect request made while Connected closes the socket of the
\* existing connection before it creates the new one, and in every state at
\* most one socket is open.
C14_AtMostOneSocketOpen ==
    [][/\ (ConnectRequest /\ Connected) =>
              /\ ~fds'[socket].held
              /\ fds'[socket].closes = 1
       /\ Cardinality(OpenSockets') <= 1]_vars

\* C15: a click on Disconnect made while Connected leaves no socket held,
\* the socket released and running = False, and as long as that click is the
\* last request of the operator no step invokes the message callback.
C15_DisconnectClickDisconnects ==
    [][/\ (OnDisconnectClick /\ Connected) =>
              /\ socket' = 0
              /\ running' = FALSE
              /\ ~fds'[socket].held
       /\ (app_call.call = "on_disconnect_click") => callbacks' = callbacks]_vars

\* a connect request with an empty host or a port outside 1..65535, made to
\* the application or through the button
InvalidConnectRequest ==
    \E host \in Hosts : \E port \in Ports :
        /\ ~ValidEndpoint(host, port)
        /\ ConnectToServer(host, port) \/ OnConnectClick(host, port)

\* C17: a connect request with an empty host or a port outside 1..65535
\* fails, creates no socket and leaves the connection as it was: the socket
\* held, its state, running and the peer's side are unchanged.
C17_InvalidConnectHasNoNetworkEffect ==
    [][InvalidConnectRequest =>
          /\ app_call'.value \in {"False", "refused"}
          /\ Len(fds') = Len(fds)
          /\ UNCHANGED <<socket, running, fds, peer, tcp_client>>]_vars

\* C19: disconnect() called on a client that holds a socket closes that
\* socket, whether or not its shutdown raises.
C19_DisconnectClosesSocket ==
    [][(Disconnect /\ socket # 0) => fds'[socket].closes = 1]_vars

\* C20: immediately after every successful connect() the receive buffer is
\* empty, whatever an earlier connection left in it.
C20_BufferEmptyAfterConnect ==
    [][ConnectOk => buffer' = <<>>]_vars

\* the same client just connected a second time, after an earlier
\* connection of its own, with the buffer empty
C20_Witness ==
    /\ last_call = [call |-> "connect", held |-> FALSE, value |-> "True"]
    /\ Len(fds) = 2
    /\ fds[1].connected
    /\ socket = 2
    /\ recv_pc = "idle"
    /\ buffer = <<>>

(***************************************************************************)
(* Claims about the send action of the Interrogations screen               *)
(***************************************************************************)
\* the fields of a message other than its name and its Signals flags
PayloadFields(message) == DOMAIN message \ {"MessageName", "Mode_S_Interrogation"}

\* C16: after a send action with Mode S interrogation selected that wrote a
\* frame, the frame carries, in some field, the word and, in some field, the
\* aircraft address that get_mode_s_data computed for the action.
C16_FrameCarriesModeSWord ==
    (/\ app_call.call = "send_message"
     /\ app_call.value = "True"
     /\ sent[Len(sent)].message.Mode_S_Interrogation) =>
        LET message == sent[Len(sent)].message IN
        /\ \E k \in PayloadFields(message) : message[k] = mode_s_word
        /\ \E k \in PayloadFields(message) : message[k] = aircraft_address

(***************************************************************************)
(* Claims about the handoff of decoded messages to the display             *)
(***************************************************************************)
\* the messages of the rows of the table, oldest first
Displayed == [i \in 1..Len(rows) |-> rows[i].raw_data]

InFileRegion(thread) ==
    \/ pc[thread] \in {"opening", "close_locked"}
    \/ thread = "writer" /\ pc[thread] \in {"write", "flush"}

\* C21: whenever the writer thread is about to write to or flush
\* self._current_file, that is an open file object (not None, not closed),
\* and no two threads are at the same time inside open, write, flush or
\* close.
C21_WriterAndCloseNeverInterleave ==
    /\ pc["writer"] \in {"write", "flush"} => Usable(current_file)
    /\ \A thread \in Threads : \A other \in Threads \ {thread} :
           ~(InFileRegion(thread) /\ InFileRegion(other))

\* C22: after a failed write the writer thread gets through _close_file:
\* no thread waits for the file lock while holding it, and no thread waits
\* for the lock while its holder waits for it too.
C22_WriteFailureDoesNotBlock ==
    \A thread \in Threads :
        pc[thread] = "close_acquire" =>
            /\ file_lock # thread
            /\ file_lock # "free" => pc[file_lock] # "close_acquire"

\* C23: a message is added to the persistence queue only while the queue
\* holds fewer messages than its fixed capacity, which is positive.
C23_QueueBounded ==
    [][Len(file_queue') > Len(file_queue) =>
          QUEUE_MAXSIZE > 0 /\ Len(file_queue') <= QUEUE_MAXSIZE]_vars

(***************************************************************************)
(* Claims about the text send_message writes                               *)
(***************************************************************************)
\* the positions of the newline characters of a text
Newlines(s) == {i \in 1..Len(s) : s[i] = LF}

\* C25: the text send_message gives to sendall contains exactly one newline
\* character, at its last position, for every record, including records
\* whose keys or string values contain newline characters.
C25_OneNewlineAtEnd ==
    tx_frame # <<>> => Newlines(tx_frame) = {Len(tx_frame)}

\* a frame written for a record with two fields, a value of which contains
\* a newline character
C25_Witness ==
    /\ tx_frame # <<>>
    /\ Len(tx_message) = 2
    /\ \E i \in 1..Len(tx_message) : Newlines(tx_message[i].value) # {}

====
